---- MODULE Spec2Model ----
(***************************************************************************)
(* Chore Champion (src/src/App.tsx): the App component as a state machine. *)
(* State is the component's useState cells, the "choreGame" localStorage   *)
(* entry and the wall clock read by Date.now() / new Date().  Every event  *)
(* handler is one action; the re-render it causes and the effects of that  *)
(* render (save to localStorage, timer logic) belong to the same action,   *)
(* because React flushes a commit's effects before it handles the next     *)
(* event.  Mounting is split into its effect steps (load, save, commit of  *)
(* the loaded state).                                                      *)
(*                                                                         *)
(* Strings the code inspects (chore names, keywords) are sequences of      *)
(* one-character strings.  A nullable value is a sequence of length 0      *)
(* (null) or 1.  Emoji glyphs are written as their code points.            *)
(***************************************************************************)
EXTENDS Integers, Sequences, FiniteSets, TLC

VARIABLES
    storage,            \* localStorage entry "choreGame"
    chores,             \* useState<Chore[]>
    level,              \* useState(1)
    xp,                 \* useState(0)
    isPlaying,          \* useState(false)
    currentChore,       \* useState<Chore | null>
    timer,              \* useState(30)
    points,             \* useState(0)
    countdown,          \* the pending setTimeout of the timer effect: the timer value it captured
    newChoreName,       \* useState("")
    selectedDifficulty, \* useState('medium')
    now,                \* wall clock, ms since the model's epoch (a midnight)
    pc,                 \* "load", "save", "commit" (mount), "ready", "crashed"
    pendingLoad,        \* state updates queued by the load effect, applied at commit
    completions,        \* history: <<id, day>> for every day a chore id was completed
    sessions,           \* history: sessions started so far
    sessionTicks,       \* history: timer callbacks fired in the running session
    rewardCount,        \* history: reward applications of the latest session
    atReload,           \* history: {chores, level, xp} in memory at a reload, until restored
    foundAtLoad         \* history: the entry the load effect read, until restored

vars == <<storage, chores, level, xp, isPlaying, currentChore, timer, points, countdown,
          newChoreName, selectedDifficulty, now, pc, pendingLoad, completions,
          sessions, sessionTicks, rewardCount, atReload,
          foundAtLoad>>

session == <<isPlaying, currentChore, timer, points, countdown>>
form == <<newChoreName, selectedDifficulty>>
history == <<completions, sessions, sessionTicks, rewardCount, atReload, foundAtLoad>>

----------------------------------------------------------------------------
(* Bounds of the model *)

MaxChores == 2
MaxPoints == 1
MaxHalfDays == 4
MaxSessions == 1
MaxEarlyEndTicks == 1
MaxReplays == 2

----------------------------------------------------------------------------
(* Program constants *)

XpPerLevel == 1000
InitialTimer == 30
MsPerDay == 1000 * 60 * 60 * 24

Difficulties == {"easy", "medium", "hard"}

DIFFICULTY_SETTINGS ==
    [easy   |-> [time |-> 45, multiplier |-> 1],
     medium |-> [time |-> 30, multiplier |-> 2],
     hard   |-> [time |-> 15, multiplier |-> 3]]

CHORE_EMOJI_MAPPING ==
    <<
      [keyword |-> <<"c", "l", "e", "a", "n">>, glyph |-> "U1F9F9"],
      [keyword |-> <<"v", "a", "c", "u", "u", "m">>, glyph |-> "U1F9F9"],
      [keyword |-> <<"d", "u", "s", "t">>, glyph |-> "U1F9F9"],
      [keyword |-> <<"s", "w", "e", "e", "p">>, glyph |-> "U1F9F9"],
      [keyword |-> <<"m", "o", "p">>, glyph |-> "U1F9F9"],
      [keyword |-> <<"w", "a", "s", "h">>, glyph |-> "U1F9FD"],
      [keyword |-> <<"l", "a", "u", "n", "d", "r", "y">>, glyph |-> "U1F455"],
      [keyword |-> <<"c", "l", "o", "t", "h", "e", "s">>, glyph |-> "U1F455"],
      [keyword |-> <<"f", "o", "l", "d">>, glyph |-> "U1F455"],
      [keyword |-> <<"i", "r", "o", "n">>, glyph |-> "U1F454"],
      [keyword |-> <<"d", "i", "s", "h", "e", "s">>, glyph |-> "U1F37D+UFE0F"],
      [keyword |-> <<"d", "i", "s", "h">>, glyph |-> "U1F37D+UFE0F"],
      [keyword |-> <<"k", "i", "t", "c", "h", "e", "n">>, glyph |-> "U1F373"],
      [keyword |-> <<"c", "o", "o", "k">>, glyph |-> "U1F468+U200D+U1F373"],
      [keyword |-> <<"c", "o", "o", "k", "i", "n", "g">>, glyph |-> "U1F468+U200D+U1F373"],
      [keyword |-> <<"m", "e", "a", "l">>, glyph |-> "U1F373"],
      [keyword |-> <<"b", "a", "t", "h", "r", "o", "o", "m">>, glyph |-> "U1F6BD"],
      [keyword |-> <<"t", "o", "i", "l", "e", "t">>, glyph |-> "U1F6BD"],
      [keyword |-> <<"s", "h", "o", "w", "e", "r">>, glyph |-> "U1F6BF"],
      [keyword |-> <<"b", "e", "d">>, glyph |-> "U1F6CF+UFE0F"],
      [keyword |-> <<"b", "e", "d", "r", "o", "o", "m">>, glyph |-> "U1F6CF+UFE0F"],
      [keyword |-> <<"s", "h", "e", "e", "t", "s">>, glyph |-> "U1F6CF+UFE0F"],
      [keyword |-> <<"g", "a", "r", "d", "e", "n">>, glyph |-> "U1F331"],
      [keyword |-> <<"p", "l", "a", "n", "t">>, glyph |-> "U1F331"],
      [keyword |-> <<"l", "a", "w", "n">>, glyph |-> "U1F33F"],
      [keyword |-> <<"y", "a", "r", "d">>, glyph |-> "U1F3E1"],
      [keyword |-> <<"o", "u", "t", "d", "o", "o", "r">>, glyph |-> "U1F3E1"],
      [keyword |-> <<"t", "r", "a", "s", "h">>, glyph |-> "U1F5D1+UFE0F"],
      [keyword |-> <<"g", "a", "r", "b", "a", "g", "e">>, glyph |-> "U1F5D1+UFE0F"],
      [keyword |-> <<"r", "e", "c", "y", "c", "l", "i", "n", "g">>, glyph |-> "U267B+UFE0F"],
      [keyword |-> <<"d", "o", "g">>, glyph |-> "U1F415"],
      [keyword |-> <<"c", "a", "t">>, glyph |-> "U1F431"],
      [keyword |-> <<"p", "e", "t">>, glyph |-> "U1F43E"],
      [keyword |-> <<"f", "e", "e", "d">>, glyph |-> "U1F43E"],
      [keyword |-> <<"w", "a", "l", "k">>, glyph |-> "U1F415"],
      [keyword |-> <<"o", "r", "g", "a", "n", "i", "z", "e">>, glyph |-> "U1F4E6"],
      [keyword |-> <<"s", "o", "r", "t">>, glyph |-> "U1F4E6"],
      [keyword |-> <<"d", "e", "c", "l", "u", "t", "t", "e", "r">>, glyph |-> "U1F4E6"],
      [keyword |-> <<"t", "i", "d", "y">>, glyph |-> "U1F5C4+UFE0F"],
      [keyword |-> <<"f", "i", "x">>, glyph |-> "U1F527"],
      [keyword |-> <<"r", "e", "p", "a", "i", "r">>, glyph |-> "U1F527"],
      [keyword |-> <<"m", "a", "i", "n", "t", "a", "i", "n">>, glyph |-> "U1F527"],
      [keyword |-> <<"h", "o", "m", "e", "w", "o", "r", "k">>, glyph |-> "U1F4DA"],
      [keyword |-> <<"s", "t", "u", "d", "y">>, glyph |-> "U1F4DA"],
      [keyword |-> <<"w", "o", "r", "k">>, glyph |-> "U1F4BC"],
      [keyword |-> <<"d", "e", "s", "k">>, glyph |-> "U1F5A5+UFE0F"],
      [keyword |-> <<"e", "x", "e", "r", "c", "i", "s", "e">>, glyph |-> "U1F3C3"],
      [keyword |-> <<"w", "o", "r", "k", "o", "u", "t">>, glyph |-> "U1F4AA"],
      [keyword |-> <<"g", "y", "m">>, glyph |-> "U1F3CB+UFE0F"],
      [keyword |-> <<"d", "e", "f", "a", "u", "l", "t">>, glyph |-> "U2728"]
    >>

----------------------------------------------------------------------------
(* Strings *)

UpperCase ==
    <<"A", "B", "C", "D", "E", "F", "G", "H", "I", "J", "K", "L", "M",
      "N", "O", "P", "Q", "R", "S", "T", "U", "V", "W", "X", "Y", "Z">>

LowerCase ==
    <<"a", "b", "c", "d", "e", "f", "g", "h", "i", "j", "k", "l", "m",
      "n", "o", "p", "q", "r", "s", "t", "u", "v", "w", "x", "y", "z">>

toLowerCase(s) ==
    [i \in DOMAIN s |->
        IF \E k \in DOMAIN UpperCase : UpperCase[k] = s[i]
        THEN LowerCase[CHOOSE k \in DOMAIN UpperCase : UpperCase[k] = s[i]]
        ELSE s[i]]

includes(s, keyword) ==
    \E i \in 0..(Len(s) - Len(keyword)) : SubSeq(s, i + 1, i + Len(keyword)) = keyword

(* Of the characters String.prototype.trim strips, the inputs use the space. *)
WhiteSpace == {" "}

RECURSIVE trimStart(_)
trimStart(s) ==
    IF s # <<>> /\ Head(s) \in WhiteSpace THEN trimStart(Tail(s)) ELSE s

RECURSIVE trimEnd(_)
trimEnd(s) ==
    IF s # <<>> /\ s[Len(s)] \in WhiteSpace THEN trimEnd(SubSeq(s, 1, Len(s) - 1)) ELSE s

(* Variant: the name is tested without trimming. *)
trim_None(s) == s

trim(s) == trimEnd(trimStart(s))

DefaultGlyph ==
    CHORE_EMOJI_MAPPING[CHOOSE k \in DOMAIN CHORE_EMOJI_MAPPING :
                            CHORE_EMOJI_MAPPING[k].keyword = <<"d", "e", "f", "a", "u", "l", "t">>].glyph

(* Variant: the last matching keyword wins. *)
findEmojiForChore_LastMatch(choreName) ==
    LET lowercaseName == toLowerCase(choreName)
        matching == {k \in DOMAIN CHORE_EMOJI_MAPPING :
                        includes(lowercaseName, CHORE_EMOJI_MAPPING[k].keyword)}
    IN  IF matching # {}
        THEN CHORE_EMOJI_MAPPING[CHOOSE k \in matching : \A j \in matching : k >= j].glyph
        ELSE DefaultGlyph

findEmojiForChore(choreName) ==
    LET lowercaseName == toLowerCase(choreName)
        matching == {k \in DOMAIN CHORE_EMOJI_MAPPING :
                        includes(lowercaseName, CHORE_EMOJI_MAPPING[k].keyword)}
    IN  IF matching # {}
        THEN CHORE_EMOJI_MAPPING[CHOOSE k \in matching : \A j \in matching : k <= j].glyph
        ELSE DefaultGlyph

----------------------------------------------------------------------------
(* Dates: toISOString writes the date and the time of day; new Date(string) *)
(* reads them back.                                                          *)

toISOString(t) == [date |-> t \div MsPerDay, time |-> t % MsPerDay]

getTime(iso) == iso.date * MsPerDay + iso.time

Floor(a, b) == a \div b

----------------------------------------------------------------------------
(* JSON: an object is the sequence of its <<key, value>> members in the     *)
(* order JSON.stringify writes them; an array is a sequence.                *)

Member(obj, key) == obj[CHOOSE i \in DOMAIN obj : obj[i][1] = key][2]

ChoreToJSON(c) ==
    << <<"id", c.id>>, <<"name", c.name>>, <<"difficulty", c.difficulty>>,
       <<"lastCompleted", c.lastCompleted>>, <<"streak", c.streak>>,
       <<"emoji", c.emoji>> >>

ChoreFromJSON(o) ==
    [id |-> Member(o, "id"), name |-> Member(o, "name"),
     difficulty |-> Member(o, "difficulty"),
     lastCompleted |-> Member(o, "lastCompleted"),
     streak |-> Member(o, "streak"), emoji |-> Member(o, "emoji")]

stringify(chs, lvl, x) ==
    [kind |-> "json",
     text |-> << <<"chores", [i \in DOMAIN chs |-> ChoreToJSON(chs[i])]>>,
                 <<"level", lvl>>, <<"xp", x>> >>]

(* Variant: the stored level is not taken over. *)
parse_NoLevel(savedData) ==
    [chores |-> [i \in DOMAIN Member(savedData.text, "chores") |->
                    ChoreFromJSON(Member(savedData.text, "chores")[i])],
     level |-> 1,
     xp |-> Member(savedData.text, "xp")]

parse(savedData) ==
    [chores |-> [i \in DOMAIN Member(savedData.text, "chores") |->
                    ChoreFromJSON(Member(savedData.text, "chores")[i])],
     level |-> Member(savedData.text, "level"),
     xp |-> Member(savedData.text, "xp")]

Absent == [kind |-> "absent", text |-> <<>>]
Corrupt == [kind |-> "corrupt", text |-> <<>>]

----------------------------------------------------------------------------
(* Inputs *)

Wash_the_dishes == <<"W", "a", "s", "h", " ", "t", "h", "e", " ", "d", "i", "s", "h", "e", "s">>
Gym == <<"G", "y", "m">>
Taxes == <<"T", "a", "x", "e", "s">>

Names == {<<>>, <<" ", " ">>, Wash_the_dishes}

Workout == <<"W", "o", "r", "k", "o", "u", "t">>
GYM == <<"G", "Y", "M">>
Clean_bathroom == <<"C", "l", "e", "a", "n", " ", "b", "a", "t", "h", "r", "o", "o", "m">>
Do_the_Dishes == <<"D", "o", " ", "t", "h", "e", " ", "D", "i", "s", "h", "e", "s">>

(* Names with two keywords, with one, with capitals and with none. *)
EmojiNames == {Wash_the_dishes, Workout, GYM, Clean_bathroom, Do_the_Dishes, Taxes}

ClockStep == MsPerDay \div 2
StartNow == MsPerDay
MaxNow == StartNow + MaxHalfDays * ClockStep

Day(t) == Floor(t, MsPerDay)

Null == <<>>
Some(v) == <<v>>

Chore(id, name, difficulty, lastCompleted, streak) ==
    [id |-> id, name |-> name, difficulty |-> difficulty,
     lastCompleted |-> lastCompleted, streak |-> streak,
     emoji |-> findEmojiForChore(name)]

(* Entries found in localStorage when the page is first opened: none, one  *)
(* that JSON.parse rejects, and two written by earlier runs or by hand.    *)
SavedNearLevelUp ==
    stringify(<<Chore(1000, Gym, "easy", Some(toISOString(ClockStep)), 1)>>, 1, XpPerLevel - 2)

SavedHighLevel ==
    stringify(<<Chore(2000, Taxes, "hard", Null, 0)>>, 3, 0)

InitialStorage == {Absent, Corrupt, SavedNearLevelUp, SavedHighLevel}

(* Ids handleRemoveChore is called with that no chore has. *)
UnknownIds == {7}

(* The completion days a stored chore's streak stands for. *)
InitialCompletions(st) ==
    IF st.kind # "json" THEN {}
    ELSE UNION { IF c.lastCompleted = Null THEN {}
                 ELSE {<<c.id, Day(getTime(c.lastCompleted[1])) - k>> : k \in 0..(c.streak - 1)}
                 : c \in {parse(st).chores[i] : i \in DOMAIN parse(st).chores} }

----------------------------------------------------------------------------
(* Initial state: first render of App with the useState defaults, before   *)
(* the mount effects have run.                                             *)

Init ==
    /\ storage \in InitialStorage
    /\ chores = <<>>
    /\ level = 1
    /\ xp = 0
    /\ isPlaying = FALSE
    /\ currentChore = Null
    /\ timer = InitialTimer
    /\ points = 0
    /\ countdown = Null
    /\ newChoreName = <<>>
    /\ selectedDifficulty = "medium"
    /\ now = StartNow
    /\ pc = "load"
    /\ pendingLoad = Null
    /\ completions = InitialCompletions(storage)
    /\ sessions = 0
    /\ sessionTicks = 0
    /\ rewardCount = 0
    /\ atReload = Null
    /\ foundAtLoad = Absent

----------------------------------------------------------------------------
(* useEffect(save, [chores, level, xp]): what the effect of a render writes. *)
(* Every action that changes chores, level or xp ends with it.              *)

(* Variant: the effect leaves xp out of the object it writes. *)
saveToLocalStorage_NoXp(chs, lvl, x) ==
    [kind |-> "json", text |-> SubSeq(stringify(chs, lvl, x).text, 1, 2)]

saveToLocalStorage(chs, lvl, x) == stringify(chs, lvl, x)

----------------------------------------------------------------------------
(* Mount effects *)

(* useEffect(load, []): JSON.parse throws on a corrupt entry; the error is *)
(* not caught, so React unmounts the tree.  Whether the remaining effects  *)
(* of the commit (the save) still run before that depends on the React     *)
(* build.                                                                  *)
loadEffect ==
    /\ pc = "load"
    /\ \/ /\ storage.kind = "absent"
          /\ pendingLoad' = Null
          /\ pc' = "save"
          /\ UNCHANGED storage
       \/ /\ storage.kind = "json"
          /\ pendingLoad' = Some(parse(storage))
          /\ pc' = "save"
          /\ UNCHANGED storage
       \/ /\ storage.kind = "corrupt"
          /\ pendingLoad' = Null
          /\ pc' = "crashed"
          /\ storage' \in {storage, saveToLocalStorage(chores, level, xp)}
    /\ foundAtLoad' = storage
    /\ UNCHANGED <<chores, level, xp, session, form, now, completions, sessions,
                   sessionTicks, rewardCount, atReload>>

(* useEffect(save, [chores, level, xp]) as run for the first render. *)
saveEffect ==
    /\ pc = "save"
    /\ storage' = saveToLocalStorage(chores, level, xp)
    /\ pc' = "commit"
    /\ UNCHANGED <<chores, level, xp, session, form, now, pendingLoad, history>>

(* The re-render with setChores/setLevel/setXp of the load effect applied, *)
(* and the save effect of that render.                                     *)
commitLoaded ==
    /\ pc = "commit"
    /\ IF pendingLoad # Null
       THEN /\ chores' = pendingLoad[1].chores
            /\ level' = pendingLoad[1].level
            /\ xp' = pendingLoad[1].xp
            /\ storage' = saveToLocalStorage(chores', level', xp')
       ELSE UNCHANGED <<chores, level, xp, storage>>
    /\ pendingLoad' = Null
    /\ pc' = "ready"
    /\ atReload' = Null
    /\ foundAtLoad' = Absent
    /\ UNCHANGED <<session, form, now, completions, sessions, sessionTicks, rewardCount>>

----------------------------------------------------------------------------
(* Chore list *)

setNewChoreName(name) ==
    /\ pc = "ready"
    /\ ~isPlaying
    /\ newChoreName' = name
    /\ UNCHANGED <<storage, chores, level, xp, session, selectedDifficulty, now, pc,
                   pendingLoad, history>>

setSelectedDifficulty(d) ==
    /\ pc = "ready"
    /\ ~isPlaying
    /\ selectedDifficulty' = d
    /\ UNCHANGED <<storage, chores, level, xp, session, newChoreName, now, pc,
                   pendingLoad, history>>

newChore(id, name, difficulty) ==
    [id |-> id, name |-> name, difficulty |-> difficulty,
     lastCompleted |-> Null, streak |-> 0, emoji |-> findEmojiForChore(name)]

(* Variant: the new chore is put in front. *)
addToChores_Prepend(prev, chore) == <<chore>> \o prev

addToChores(prev, chore) == Append(prev, chore)

handleAddChore ==
    /\ pc = "ready"
    /\ ~isPlaying
    /\ IF trim(newChoreName) = <<>>
       THEN UNCHANGED <<chores, newChoreName, storage>>
       ELSE /\ chores' = addToChores(chores, newChore(now, newChoreName, selectedDifficulty))
            /\ newChoreName' = <<>>
            /\ storage' = saveToLocalStorage(chores', level, xp)
    /\ UNCHANGED <<level, xp, session, selectedDifficulty, now, pc, pendingLoad, history>>

(* Variant: the filter keeps the matching chores instead of the others. *)
filterChores_Inverted(prev, id) == SelectSeq(prev, LAMBDA chore : chore.id = id)

filterChores(prev, id) == SelectSeq(prev, LAMBDA chore : chore.id # id)

handleRemoveChore(id) ==
    /\ pc = "ready"
    /\ ~isPlaying
    /\ chores' = filterChores(chores, id)
    /\ storage' = saveToLocalStorage(chores', level, xp)
    /\ completions' = {e \in completions : e[1] # id}
    /\ UNCHANGED <<level, xp, session, form, now, pc, pendingLoad,
                   sessions, sessionTicks, rewardCount, atReload, foundAtLoad>>

----------------------------------------------------------------------------
(* Game session.  The +1 Point and End Game buttons are handled only in   *)
(* renders whose effects have run, so neither fires between the render    *)
(* that shows timer 0 and the timer effect of that render.                *)

(* useEffect(timer logic, [isPlaying, timer]) after a render that changed *)
(* isPlaying or timer: the cleanup of the previous run clears its timeout, *)
(* then a new one is set while the game runs and the timer is above 0.     *)
(* pending is the timeout of the previous run, if it has not fired.        *)
(* Variant: the effect has no cleanup, a timeout that was set stays set. *)
scheduleCountdown_NoCleanup(pending, playing, t) ==
    IF playing /\ t > 0 THEN Some(t) ELSE pending

scheduleCountdown(pending, playing, t) ==
    IF playing /\ t > 0 THEN Some(t) ELSE Null

(* Variant: the points of the session before are kept. *)
startGame_KeepPoints(chore) ==
    /\ pc = "ready"
    /\ ~isPlaying
    /\ isPlaying' = TRUE
    /\ currentChore' = Some(chore)
    /\ timer' = DIFFICULTY_SETTINGS[chore.difficulty].time
    /\ points' = points
    /\ countdown' = scheduleCountdown(countdown, isPlaying', timer')
    /\ sessions' = sessions + 1
    /\ sessionTicks' = 0
    /\ rewardCount' = 0
    /\ UNCHANGED <<storage, chores, level, xp, form, now, pc, pendingLoad,
                   completions, atReload, foundAtLoad>>

(* Variant: the chore that is played is not recorded. *)
startGame_NoChore(chore) ==
    /\ pc = "ready"
    /\ ~isPlaying
    /\ isPlaying' = TRUE
    /\ currentChore' = currentChore
    /\ timer' = DIFFICULTY_SETTINGS[chore.difficulty].time
    /\ points' = 0
    /\ countdown' = scheduleCountdown(countdown, isPlaying', timer')
    /\ sessions' = sessions + 1
    /\ sessionTicks' = 0
    /\ rewardCount' = 0
    /\ UNCHANGED <<storage, chores, level, xp, form, now, pc, pendingLoad,
                   completions, atReload, foundAtLoad>>

startGame(chore) ==
    /\ pc = "ready"
    /\ ~isPlaying
    /\ isPlaying' = TRUE
    /\ currentChore' = Some(chore)
    /\ timer' = DIFFICULTY_SETTINGS[chore.difficulty].time
    /\ points' = 0
    /\ countdown' = scheduleCountdown(countdown, isPlaying', timer')
    /\ sessions' = sessions + 1
    /\ sessionTicks' = 0
    /\ rewardCount' = 0
    /\ UNCHANGED <<storage, chores, level, xp, form, now, pc, pendingLoad,
                   completions, atReload, foundAtLoad>>

scorePoint ==
    /\ pc = "ready"
    /\ isPlaying
    /\ timer > 0
    /\ points' = points + 1
    /\ UNCHANGED <<storage, chores, level, xp, isPlaying, currentChore, timer, countdown,
                   form, now, pc, pendingLoad, history>>

(* The setTimeout callback scheduled by the timer effect. *)
tick ==
    /\ pc = "ready"
    /\ countdown # Null
    /\ timer' = countdown[1] - 1
    /\ countdown' = scheduleCountdown(Null, isPlaying, timer')
    /\ sessionTicks' = sessionTicks + 1
    /\ UNCHANGED <<storage, chores, level, xp, isPlaying, currentChore, points, form, now,
                   pc, pendingLoad, completions, sessions, rewardCount, atReload,
                   foundAtLoad>>

(* Variant: the streak continues only within one day. *)
updateStreak_SameDayOnly(chore, today) ==
    IF chore.lastCompleted = Null THEN 1
    ELSE LET lastCompleted == getTime(chore.lastCompleted[1])
             diffDays == Floor(today - lastCompleted, 1000 * 60 * 60 * 24)
         IN  IF diffDays < 1 THEN chore.streak + 1 ELSE 1

updateStreak(chore, today) ==
    IF chore.lastCompleted = Null THEN 1
    ELSE LET lastCompleted == getTime(chore.lastCompleted[1])
             diffDays == Floor(today - lastCompleted, 1000 * 60 * 60 * 24)
         IN  IF diffDays <= 1 THEN chore.streak + 1 ELSE 1

(* Variant: the multiplier is added instead of multiplied. *)
finalPoints_Added(pts, chore) == pts + DIFFICULTY_SETTINGS[chore.difficulty].multiplier

finalPoints(pts, chore) == pts * DIFFICULTY_SETTINGS[chore.difficulty].multiplier

newLevel(newXp) == Floor(newXp, XpPerLevel) + 1

(* Variant: the level is set to the recomputed value, whatever it was. *)
levelAfter_Recomputed(lvl, newXp) == newLevel(newXp)

levelAfter(lvl, newXp) == IF newLevel(newXp) > lvl THEN newLevel(newXp) ELSE lvl

updatedChore(chore, today) ==
    [chore EXCEPT !.lastCompleted = Some(toISOString(today)),
                  !.streak = updateStreak(chore, today)]

mapChores(prev, chore, today) ==
    [i \in DOMAIN prev |-> IF prev[i].id = chore.id THEN updatedChore(chore, today) ELSE prev[i]]

endGame ==
    /\ IF currentChore # Null
       THEN /\ xp' = xp + finalPoints(points, currentChore[1])
            /\ level' = levelAfter(level, xp')
            /\ chores' = mapChores(chores, currentChore[1], now)
            /\ completions' =
                 IF \E i \in DOMAIN chores : chores[i].id = currentChore[1].id
                 THEN completions \cup {<<currentChore[1].id, Day(now)>>}
                 ELSE completions
            /\ rewardCount' = rewardCount + 1
       ELSE UNCHANGED <<xp, level, chores, completions, rewardCount>>
    /\ isPlaying' = FALSE
    /\ currentChore' = Null
    /\ countdown' = scheduleCountdown(countdown, isPlaying', timer)
    /\ storage' = saveToLocalStorage(chores', level', xp')
    /\ sessionTicks' = 0
    /\ UNCHANGED <<timer, points, form, now, pc, pendingLoad, sessions, atReload,
                   foundAtLoad>>

(* The End Game button. *)
endGameClick ==
    /\ pc = "ready"
    /\ isPlaying
    /\ timer > 0
    /\ endGame

(* Variant: the effect ends the game one second early. *)
timerEffect_OneEarly ==
    /\ pc = "ready"
    /\ isPlaying
    /\ timer = 1
    /\ endGame

(* The timer effect of the render in which timer became 0. *)
timerEffect ==
    /\ pc = "ready"
    /\ isPlaying
    /\ timer = 0
    /\ endGame

----------------------------------------------------------------------------
(* Environment *)

(* Date.now() and new Date() read the wall clock.  It has millisecond     *)
(* resolution and is not tied to the setTimeout queue, so time passing is *)
(* a step of its own and two handlers may read the same value.            *)
advanceClock ==
    /\ now' = now + ClockStep
    /\ UNCHANGED <<storage, chores, level, xp, session, form, pc, pendingLoad, history>>

(* The page is reloaded: component state is lost, localStorage is kept. *)
reload ==
    /\ pc \in {"commit", "ready", "crashed"}
    /\ chores' = <<>>
    /\ level' = 1
    /\ xp' = 0
    /\ isPlaying' = FALSE
    /\ currentChore' = Null
    /\ timer' = InitialTimer
    /\ points' = 0
    /\ countdown' = Null
    /\ newChoreName' = <<>>
    /\ selectedDifficulty' = "medium"
    /\ pc' = "load"
    /\ pendingLoad' = Null
    /\ sessionTicks' = 0
    /\ rewardCount' = 0
    /\ atReload' = IF pc = "ready" THEN Some([chores |-> chores, level |-> level, xp |-> xp])
                   ELSE Null
    /\ foundAtLoad' = Absent
    /\ UNCHANGED <<storage, now, completions, sessions>>

----------------------------------------------------------------------------

(* The bounds of the model limit how often and when the user acts; the  *)
(* handlers themselves are as in the source.                             *)
Next ==
    \/ loadEffect
    \/ saveEffect
    \/ commitLoaded
    \/ \E name \in Names : Len(chores) < MaxChores /\ setNewChoreName(name)
    \/ \E d \in Difficulties : Len(chores) < MaxChores /\ setSelectedDifficulty(d)
    \/ Len(chores) < MaxChores /\ handleAddChore
    \/ \E i \in DOMAIN chores : handleRemoveChore(chores[i].id)
    \/ \E id \in UnknownIds : handleRemoveChore(id)
    \/ \E i \in DOMAIN chores : sessions < MaxSessions /\ startGame(chores[i])
    \/ points < MaxPoints /\ scorePoint
    \/ tick
    \/ sessionTicks <= MaxEarlyEndTicks /\ endGameClick
    \/ timerEffect
    \/ now + ClockStep <= MaxNow /\ advanceClock
    \/ reload

Spec == Init /\ [][Next]_vars

(* Playing only: the stored chores are played, up to MaxReplays sessions. *)
NextPlay ==
    \/ loadEffect
    \/ saveEffect
    \/ commitLoaded
    \/ \E i \in DOMAIN chores : sessions < MaxReplays /\ startGame(chores[i])
    \/ points < MaxPoints /\ scorePoint
    \/ tick
    \/ sessionTicks <= MaxEarlyEndTicks /\ endGameClick
    \/ timerEffect
    \/ reload

SpecPlay == Init /\ [][NextPlay]_vars

(* The chore list only: chores are added under the names of EmojiNames. *)
NextEmoji ==
    \/ loadEffect
    \/ saveEffect
    \/ commitLoaded
    \/ \E name \in EmojiNames : Len(chores) < MaxChores /\ setNewChoreName(name)
    \/ Len(chores) < MaxChores /\ handleAddChore
    \/ \E i \in DOMAIN chores : handleRemoveChore(chores[i].id)

SpecEmoji == Init /\ [][NextEmoji]_vars

----------------------------------------------------------------------------
(* Properties *)

Ready == pc = "ready"

(* A step that ends a running session: the End Game button or the timer effect. *)
SessionEnds == endGameClick \/ timerEffect

ExpectedTime(d) == CASE d = "easy" -> 45 [] d = "medium" -> 30 [] d = "hard" -> 15

ExpectedMultiplier(d) == CASE d = "easy" -> 1 [] d = "medium" -> 2 [] d = "hard" -> 3

NonBlank(name) == \E i \in DOMAIN name : name[i] \notin WhiteSpace

(* C1: after any reward application, level equals floor(xp / 1000) + 1,  *)
(* whatever state was restored from storage at startup.                   *)
C1_LevelDerivedFromXp ==
    (Ready /\ rewardCount > 0) => level = (xp \div 1000) + 1

(* C2: startGame sets the timer to the difficulty's time (easy 45, medium *)
(* 30, hard 15); a session that is not ended by hand is ended by the timer *)
(* effect after exactly that many ticks, as soon as the timer shows 0, and  *)
(* every end of a session applies its reward exactly once.                 *)
C2_SessionTimer ==
    [][ /\ (~isPlaying /\ isPlaying') =>
              /\ timer' = ExpectedTime(currentChore'[1].difficulty)
              /\ sessionTicks' = 0 /\ rewardCount' = 0
        /\ timerEffect =>
              /\ sessionTicks = ExpectedTime(currentChore[1].difficulty)
              /\ rewardCount = 0
        /\ (isPlaying /\ timer = 0 /\ pc' = "ready" /\ session' # session) => timerEffect
        /\ SessionEnds => (rewardCount = 0 /\ rewardCount' = 1 /\ ~isPlaying')
        /\ (isPlaying /\ ~isPlaying' /\ pc' = "ready") => SessionEnds
        /\ (~SessionEnds /\ pc' = "ready") => (rewardCount' = rewardCount \/ rewardCount' = 0)
      ]_vars

C2_Witness ==
    Ready /\ ~isPlaying /\ timer = 0 /\ rewardCount = 1

(* C3: whichever way a running session ends, xp grows by exactly          *)
(* points * multiplier (easy 1, medium 2, hard 3) of the active chore,     *)
(* where points counts the +1 Point clicks since startGame.                *)
C3_Reward ==
    [][ /\ SessionEnds =>
              xp' = xp + points * ExpectedMultiplier(currentChore[1].difficulty)
        /\ (~isPlaying /\ isPlaying') => points' = 0
        /\ (isPlaying /\ isPlaying') =>
              (points' = points \/ (scorePoint /\ points' = points + 1))
      ]_vars

C3_Witness ==
    Ready /\ ~isPlaying /\ rewardCount = 1 /\ points > 0 /\ timer > 0
          /\ xp = XpPerLevel - 2 + 3 * points

(* C4: when a session ends, the played chore's streak becomes 1 if it was *)
(* never completed, old streak + 1 if less than two whole days have passed *)
(* since lastCompleted (in particular within 24 hours), and 1 otherwise    *)
(* (two or more full days later).                                          *)
StreakRule(chore, t) ==
    IF chore.lastCompleted = Null THEN 1
    ELSE LET elapsed == t - getTime(chore.lastCompleted[1])
         IN  IF elapsed < 2 * MsPerDay THEN chore.streak + 1 ELSE 1

C4_StreakRule ==
    [][ SessionEnds =>
          \A i \in DOMAIN chores :
              chores[i] = currentChore[1] =>
                  /\ chores'[i].streak = StreakRule(chores[i], now)
                  /\ chores'[i].lastCompleted = Some(toISOString(now))
      ]_vars

C4_Witness ==
    Ready /\ \E i \in DOMAIN chores :
                /\ chores[i].streak = 2
                /\ chores[i].lastCompleted = Some(toISOString(now))

(* C5: a chore's streak is the number of consecutive days, ending with    *)
(* the day of its last completion, on which it was completed.              *)
ConsecutiveDays(chore) ==
    IF chore.lastCompleted = Null THEN 0
    ELSE LET last == Day(getTime(chore.lastCompleted[1]))
         IN  Cardinality({k \in 0..(MaxHalfDays + 2) :
                            \A j \in 0..k : <<chore.id, last - j>> \in completions})

C5_StreakCountsDays ==
    Ready => \A i \in DOMAIN chores : chores[i].streak = ConsecutiveDays(chores[i])

(* C6: the ids of the chores in the collection are pairwise distinct. *)
C6_IdsDistinct ==
    \A i, j \in DOMAIN chores : i # j => chores[i].id # chores[j].id

(* C7: startup with a stored state makes {chores, level, xp} exactly that *)
(* state, so a state persisted before a reload is reproduced field for     *)
(* field and in the same order.                                            *)
C7_RestoreOnStartup ==
    [][ commitLoaded =>
          /\ foundAtLoad.kind = "json" =>
                stringify(chores', level', xp') = foundAtLoad
          /\ (atReload # Null /\ foundAtLoad.kind = "json") =>
                /\ chores' = atReload[1].chores
                /\ level' = atReload[1].level
                /\ xp' = atReload[1].xp
      ]_vars

C7_Witness ==
    /\ pc = "commit"
    /\ atReload # Null
    /\ pendingLoad # Null
    /\ \E i \in DOMAIN atReload[1].chores : atReload[1].chores[i].lastCompleted # Null
    /\ atReload[1].xp > 0

(* C8: once a change of chores, level or xp is committed, the storage     *)
(* entry holds exactly the in-memory {chores, level, xp}.                  *)
C8_StorageMirrorsMemory ==
    Ready => /\ storage.kind = "json"
             /\ Len(storage.text) = 3
             /\ parse(storage) = [chores |-> chores, level |-> level, xp |-> xp]

C8_Witness ==
    Ready /\ rewardCount = 1 /\ xp > 0 /\ Len(chores) = 2 /\ storage # SavedNearLevelUp

(* C9: startup with an absent or corrupt entry never fails. *)
C9_StartupNeverFails ==
    pc # "crashed"

(* C10: addChore with a name that is not blank appends one chore with the *)
(* given name and difficulty, streak 0 and lastCompleted null, and leaves  *)
(* the existing chores as they were.                                       *)
C10_AddChore ==
    [][ (handleAddChore /\ NonBlank(newChoreName)) =>
          /\ Len(chores') = Len(chores) + 1
          /\ SubSeq(chores', 1, Len(chores)) = chores
          /\ chores'[Len(chores')].name = newChoreName
          /\ chores'[Len(chores')].difficulty = selectedDifficulty
          /\ chores'[Len(chores')].streak = 0
          /\ chores'[Len(chores')].lastCompleted = Null
      ]_vars

C10_Witness ==
    /\ Ready
    /\ Len(chores) = 2
    /\ chores[1].name = Gym
    /\ chores[2].name = Wash_the_dishes
    /\ chores[2].streak = 0

(* C11: addChore with an empty or whitespace-only name changes nothing:  *)
(* the chores, level, xp, the session and the stored entry stay as they   *)
(* were.                                                                  *)
C11_BlankNameIsNoOp ==
    [][ (handleAddChore /\ ~NonBlank(newChoreName)) =>
          /\ chores' = chores
          /\ level' = level
          /\ xp' = xp
          /\ session' = session
          /\ storage' = storage
      ]_vars

C11_Witness ==
    Ready /\ ~isPlaying /\ newChoreName = <<" ", " ">> /\ Len(chores) = 1

(* C12: removeChore(id) removes the chores whose id is id and keeps every *)
(* other chore, unchanged and in the same relative order; with an id no    *)
(* chore has the collection stays as it is; level and xp do not change.    *)
RemoveIds == {chores[i].id : i \in DOMAIN chores} \cup UnknownIds

Kept(id) == {i \in DOMAIN chores : chores[i].id # id}

Rank(i, id) == Cardinality({j \in Kept(id) : j <= i})

C12_RemoveChore ==
    [][ \A id \in RemoveIds :
          handleRemoveChore(id) =>
              /\ Len(chores') = Cardinality(Kept(id))
              /\ \A i \in Kept(id) : chores'[Rank(i, id)] = chores[i]
              /\ (Kept(id) = DOMAIN chores => chores' = chores)
              /\ level' = level
              /\ xp' = xp
      ]_vars

C12_Witness ==
    /\ Ready
    /\ Len(chores) = 1
    /\ chores[1].name = Wash_the_dishes
    /\ xp = XpPerLevel - 2

(* C13: a tick fires only while a session runs with timer above 0 and    *)
(* lowers timer by exactly 1; timer stays between 0 and the difficulty's  *)
(* start value; no timeout is pending and timer does not change while no  *)
(* session runs.                                                          *)
C13_Countdown ==
    [][ /\ tick => (isPlaying /\ timer > 0 /\ timer' = timer - 1 /\ isPlaying')
        /\ isPlaying =>
              (timer >= 0 /\ timer <= ExpectedTime(currentChore[1].difficulty))
        /\ ~isPlaying => countdown = Null
        /\ (~isPlaying /\ ~isPlaying' /\ pc = "ready" /\ pc' = "ready") => timer' = timer
        /\ (isPlaying /\ isPlaying' /\ timer' # timer) => tick
      ]_vars

C13_Witness ==
    /\ Ready
    /\ ~isPlaying
    /\ rewardCount = 1
    /\ timer \in {44, 29, 14}
    /\ countdown = Null

(* C14: xp is never negative and level never below 1, and no operation   *)
(* of the mounted component lowers either.                                *)
C14_Monotone ==
    [][ /\ xp >= 0 /\ level >= 1
        /\ xp' >= 0 /\ level' >= 1
        /\ (pc = "ready" /\ pc' = "ready") => (xp' >= xp /\ level' >= level)
      ]_vars

C14_Witness ==
    Ready /\ level = 2 /\ xp >= XpPerLevel /\ rewardCount = 1

(* C15: across every step a chore's streak is unchanged, larger than     *)
(* before or 1, and never negative; only the end of a session on that     *)
(* chore changes it.  Chores are followed by their place in the list over *)
(* the steps that keep the list's length.                                 *)
C15_StreakSteps ==
    [][ /\ \A i \in DOMAIN chores : chores[i].streak >= 0
        /\ (pc = "ready" /\ pc' = "ready" /\ Len(chores') = Len(chores)) =>
              \A i \in DOMAIN chores :
                  /\ \/ chores'[i].streak = chores[i].streak
                     \/ chores'[i].streak > chores[i].streak
                     \/ chores'[i].streak = 1
                  /\ chores'[i].streak # chores[i].streak =>
                        (SessionEnds /\ chores[i] = currentChore[1])
      ]_vars

(* C16: points change only by scorePoint while a session runs, by        *)
(* exactly 1 and with nothing else changing, and by startGame, which     *)
(* sets them to 0 whatever the session before has scored; while idle     *)
(* they do not change.                                                    *)
C16_Points ==
    [][ /\ scorePoint => (isPlaying /\ points' = points + 1)
        /\ (pc = "ready" /\ pc' = "ready" /\ points' # points) =>
              \/ /\ isPlaying
                 /\ points' = points + 1
                 /\ UNCHANGED <<storage, chores, level, xp, isPlaying, currentChore, timer,
                                countdown, newChoreName, selectedDifficulty>>
              \/ /\ ~isPlaying
                 /\ isPlaying'
        /\ (~isPlaying /\ isPlaying') => points' = 0
      ]_vars

(* The second session has scored its own point after the first one       *)
(* scored one on the stored easy chore.                                   *)
C16_Witness ==
    sessions = 2 /\ isPlaying /\ points = 1 /\ xp = (XpPerLevel - 2) + 1

(* C17: the glyph of an added chore is that of the first keyword of      *)
(* CHORE_EMOJI_MAPPING, in the order of declaration, found in the         *)
(* lowercased name, and the default glyph when there is none; "Wash the   *)
(* dishes" gets the glyph of "wash", not that of "dishes".                *)
C17_FirstKeyword ==
    [][ (handleAddChore /\ NonBlank(newChoreName)) =>
          LET added == chores'[Len(chores')]
              low == toLowerCase(newChoreName)
              Found(k) == includes(low, CHORE_EMOJI_MAPPING[k].keyword)
          IN  /\ \/ \E k \in DOMAIN CHORE_EMOJI_MAPPING :
                       /\ Found(k)
                       /\ \A j \in 1..(k - 1) : ~Found(j)
                       /\ added.emoji = CHORE_EMOJI_MAPPING[k].glyph
                 \/ /\ \A k \in DOMAIN CHORE_EMOJI_MAPPING : ~Found(k)
                    /\ added.emoji = "U2728"
              /\ newChoreName = Wash_the_dishes =>
                    (added.emoji = "U1F9FD" /\ added.emoji # "U1F37D+UFE0F")
      ]_vars

C17_Witness ==
    /\ Len(chores) = 2
    /\ chores[1].name = Wash_the_dishes /\ chores[1].emoji = "U1F9FD"
    /\ chores[2].name = Workout /\ chores[2].emoji = "U1F4BC"

(* C18: the end of a session changes, in the list, only lastCompleted    *)
(* (set to the current time) and streak of the chore that was played;     *)
(* every other chore, the number of chores and their order stay as they   *)
(* were.                                                                  *)
C18_EndGameFrame ==
    [][ SessionEnds =>
          /\ Len(chores') = Len(chores)
          /\ \A i \in DOMAIN chores :
                IF chores[i] = currentChore[1]
                THEN /\ chores'[i].id = chores[i].id
                     /\ chores'[i].name = chores[i].name
                     /\ chores'[i].difficulty = chores[i].difficulty
                     /\ chores'[i].emoji = chores[i].emoji
                     /\ chores'[i].lastCompleted = Some(toISOString(now))
                ELSE chores'[i] = chores[i]
      ]_vars

(* C19: there is an active chore exactly while a session runs, and the   *)
(* active chore is one of the chores of the list.                         *)
C19_ActiveChore ==
    /\ (currentChore # Null) <=> isPlaying
    /\ isPlaying => \E i \in DOMAIN chores : chores[i] = currentChore[1]

C19_Witness ==
    isPlaying /\ Len(chores) = 2 /\ currentChore = Some(chores[2]) /\ timer < InitialTimer - 1

====
